---- MODULE Spec2Model ----
(***************************************************************************)
(* DatasaurLocal (src/index.js): an in-memory data model holding an array  *)
(* of row objects (data) and an array of column schema entries (schema).   *)
(* Every method of the class is one action; positions are 0-based as in    *)
(* the source, JavaScript values are tagged records.                       *)
(***************************************************************************)
EXTENDS Integers, Sequences, FiniteSets, TLC

VARIABLES data, schema, needsShapeChange, timers, hostCalls, call, steps

vars == <<data, schema, needsShapeChange, timers, hostCalls, call, steps>>

(***************************************************************************)
(* JavaScript values                                                       *)
(***************************************************************************)
Undefined == [t |-> "undefined"]
Null == [t |-> "null"]
Bool(b) == [t |-> "boolean", b |-> b]
Num(n) == [t |-> "number", n |-> n]
Str(s) == [t |-> "string", s |-> s]

\* A plain object: own enumerable properties in insertion order, and its
\* prototype (Null stands for Object.prototype or no prototype: none of the
\* property names used here is found there).
ObjectCreate(proto, props) == [t |-> "object", props |-> props, proto |-> proto]
JSObject(props) == ObjectCreate(Null, props)
Prop(k, v) == [k |-> k, v |-> v]

\* The array getValue builds for a sub-row cell: three values, subrows = true.
Subrows(a, b, c) == [t |-> "array", elems |-> <<a, b, c>>, subrows |-> TRUE]

\* ToBoolean.
Truthy(v) ==
    CASE v.t = "undefined" -> FALSE
      [] v.t = "null" -> FALSE
      [] v.t = "boolean" -> v.b
      [] v.t = "number" -> v.n # 0
      [] v.t = "string" -> v.s # ""
      [] OTHER -> TRUE

HasOwn(o, k) == \E i \in 1..Len(o.props) : o.props[i].k = k

OwnIndex(o, k) == CHOOSE i \in 1..Len(o.props) : o.props[i].k = k

\* o[k]: own property, else along the prototype chain, else undefined.
RECURSIVE Get(_, _)
Get(o, k) ==
    IF HasOwn(o, k) THEN o.props[OwnIndex(o, k)].v
    ELSE IF o.proto.t = "object" THEN Get(o.proto, k)
    ELSE Undefined

\* o[k] = v: an existing own property keeps its place, a new one goes last.
Put(o, k, v) ==
    IF HasOwn(o, k)
    THEN [o EXCEPT !.props = [@ EXCEPT ![OwnIndex(o, k)] = Prop(k, v)]]
    ELSE [o EXCEPT !.props = Append(@, Prop(k, v))]

\* delete o[k]
Delete(o, k) ==
    LET keep(p) == p.k # k IN [o EXCEPT !.props = SelectSeq(@, keep)]

\* Object.keys(o): own enumerable string keys, in insertion order.
ObjectKeys(o) == [i \in 1..Len(o.props) |-> Str(o.props[i].k)]

\* The property key a value is converted to when used in o[v].
ToPropertyKey(v) ==
    CASE v.t = "string" -> v.s
      [] v.t = "undefined" -> "undefined"
      [] OTHER -> "?"

Min(a, b) == IF a < b THEN a ELSE b
Max(a, b) == IF a > b THEN a ELSE b

\* Array.prototype.splice(start, deleteCount, ...items) on arr: the removed
\* elements and the array afterwards.
Splice(arr, start, deleteCount, items) ==
    LET len == Len(arr)
        from == IF start < 0 THEN Max(len + start, 0) ELSE Min(start, len)
        cnt == Min(Max(deleteCount, 0), len - from)
    IN [removed |-> SubSeq(arr, from + 1, from + cnt),
        result |-> SubSeq(arr, 1, from) \o items \o SubSeq(arr, from + cnt + 1, len)]

\* arr[y] for a number y: undefined outside the array.
Index(arr, y) == IF y + 1 \in DOMAIN arr THEN arr[y + 1] ELSE Undefined

\* arr[y] = v for 0 <= y: the array grows with holes (read as undefined).
AssignIndex(arr, y, v) ==
    [i \in 1..Max(Len(arr), y + 1) |->
        IF i = y + 1 THEN v ELSE IF i <= Len(arr) THEN arr[i] ELSE Undefined]

(***************************************************************************)
(* Program constants                                                       *)
(***************************************************************************)
SubrowY == 116
SubrowYX == 114
SubrowX == 2
SubrowHeight == 46
SubrowShift == 2

(***************************************************************************)
(* Construction                                                            *)
(***************************************************************************)
initialize ==
    /\ schema = <<>>
    /\ data = <<>>
    /\ needsShapeChange = Undefined
    /\ timers = 0
    /\ hostCalls = <<>>
    /\ call = [op |-> "initialize", args |-> <<>>, ret |-> Undefined, threw |-> FALSE]
    /\ steps = 0

\* What a method call leaves for its caller: the value returned, or a throw.
Returned(op, args, ret) == [op |-> op, args |-> args, ret |-> ret, threw |-> FALSE]
Threw(op, args) == [op |-> op, args |-> args, ret |-> Undefined, threw |-> TRUE]

dispatchEvent(name) == Str(name)
setTimeout(fn) == [t |-> "timeout", fn |-> fn]

(***************************************************************************)
(* Accessors                                                               *)
(***************************************************************************)
getSchema == schema
getRow(y) == Index(data, y)
getRowCount == Len(data)
getColumnCount == Len(schema)

\* getColumnName.call(this, x): a number indexes the schema and takes .name
\* (a TypeError when schema[x] is undefined, undefined when the entry is a
\* string), anything else is the name itself.
getColumnName(x) ==
    IF x.t = "number"
    THEN LET entry == Index(schema, x.n) IN
         IF entry.t = "undefined" THEN [threw |-> TRUE, name |-> Undefined]
         ELSE IF entry.t = "object" THEN [threw |-> FALSE, name |-> Get(entry, "name")]
         ELSE [threw |-> FALSE, name |-> Undefined]
    ELSE [threw |-> FALSE, name |-> x]

\* An array value passed to or returned from a method.
Arr(elems) == [t |-> "array", elems |-> elems]

(***************************************************************************)
(* Schema and data                                                         *)
(***************************************************************************)
\* this.data.find(function(dataRow) { return dataRow; })
FirstDefinedRow(d) ==
    IF \E i \in 1..Len(d) : Truthy(d[i])
    THEN d[CHOOSE i \in 1..Len(d) : Truthy(d[i]) /\ \A j \in 1..(i - 1) : ~Truthy(d[j])]
    ELSE Undefined

\* The schema setSchema(newSchema) stores, given the rows held.
InferredSchema(d, newSchema) ==
    IF Len(newSchema) = 0
    THEN LET dataRow == FirstDefinedRow(d) IN
         IF Truthy(dataRow) THEN ObjectKeys(dataRow) ELSE newSchema
    ELSE newSchema

setSchema(newSchema) ==
    /\ schema' = InferredSchema(data, newSchema.elems)
    /\ hostCalls' = <<dispatchEvent("fin-hypergrid-schema-changed")>>
    /\ call' = Returned("setSchema", <<newSchema>>, Undefined)
    /\ UNCHANGED <<data, needsShapeChange, timers>>

\* setData deriving the schema from the rows although one is held.
SetDataBranch_Rederive(d, s) ==
    IF Truthy(s) THEN "given"
    ELSE IF Len(d) # 0 THEN "derive"
    ELSE "keep"

\* Which branch of setData runs: "given" (schema passed), "derive" (rows but
\* no schema held) or "keep".
SetDataBranch(d, s) ==
    IF Truthy(s) THEN "given"
    ELSE IF Len(d) # 0 /\ Len(schema) = 0 THEN "derive"
    ELSE "keep"

setData(d, s) ==
    LET rows == IF Truthy(d) THEN d.elems ELSE <<>>
        branch == SetDataBranch(rows, s)
    IN /\ data' = rows
       /\ schema' = CASE branch = "given" -> InferredSchema(rows, s.elems)
                      [] branch = "derive" -> InferredSchema(rows, <<>>)
                      [] OTHER -> schema
       /\ hostCalls' = IF branch = "keep" THEN <<>>
                       ELSE <<dispatchEvent("fin-hypergrid-schema-changed")>>
       /\ call' = Returned("setData", <<d, s>>, Undefined)
       /\ UNCHANGED <<needsShapeChange, timers>>

(***************************************************************************)
(* Cells                                                                   *)
(***************************************************************************)
\* y===116 || y===114 && x===2
IsSubrowCell(x, y) == y.n = SubrowY \/ (y.n = SubrowYX /\ x = Num(SubrowX))

\* if (y>114) y +=2; if (y>116) y +=2;
ShiftedY(y) ==
    LET y1 == IF y > SubrowYX THEN y + SubrowShift ELSE y
    IN IF y1 > SubrowY THEN y1 + SubrowShift ELSE y1

\* ((row.__META || (row.__META = {})).__ROW || (row.__META.__ROW = {})).height = 46
RECURSIVE WithRowHeight(_)
WithRowHeight(meta) ==
    IF Truthy(Get(meta, "__ROW"))
    THEN IF HasOwn(meta, "__ROW")
         THEN Put(meta, "__ROW", Put(Get(meta, "__ROW"), "height", Num(SubrowHeight)))
         ELSE [meta EXCEPT !.proto = WithRowHeight(meta.proto)]
    ELSE Put(meta, "__ROW", JSObject(<<Prop("height", Num(SubrowHeight))>>))

WithSubrowHeight(row) ==
    LET meta == IF Truthy(Get(row, "__META")) THEN Get(row, "__META") ELSE JSObject(<<>>)
    IN Put(row, "__META", WithRowHeight(meta))

\* Scheduling without the pending-flag guard.
ShapeChangeNeedsScheduling_Always == TRUE

\* if (!this.needsShapeChange)
ShapeChangeNeedsScheduling == ~Truthy(needsShapeChange)

\* What getValue(x, y) does in the state at hand: whether it throws, what it
\* returns, the rows afterwards and whether it reaches the scheduling block.
getValueOutcome(x, y) ==
    IF IsSubrowCell(x, y)
    THEN LET row == Index(data, y.n)
             col == getColumnName(x)
             key == ToPropertyKey(col.name)
             row1 == Index(data, y.n + 1)
             row2 == Index(data, y.n + 2)
         IN IF ~Truthy(row)
            THEN [threw |-> FALSE, ret |-> Null, data |-> data, subrow |-> FALSE]
            ELSE IF col.threw \/ row1.t # "object" \/ row2.t # "object"
            THEN [threw |-> TRUE, ret |-> Undefined, data |-> data, subrow |-> FALSE]
            ELSE [threw |-> FALSE,
                  ret |-> Subrows(Get(row, key), Get(row1, key), Get(row2, key)),
                  data |-> [data EXCEPT ![y.n + 1] = WithSubrowHeight(row)],
                  subrow |-> TRUE]
    ELSE LET row == Index(data, ShiftedY(y.n))
             col == getColumnName(x)
         IN IF ~Truthy(row)
            THEN [threw |-> FALSE, ret |-> Null, data |-> data, subrow |-> FALSE]
            ELSE IF col.threw
            THEN [threw |-> TRUE, ret |-> Undefined, data |-> data, subrow |-> FALSE]
            ELSE [threw |-> FALSE, ret |-> Get(row, ToPropertyKey(col.name)),
                  data |-> data, subrow |-> FALSE]

getValue(x, y) ==
    LET out == getValueOutcome(x, y)
        schedule == out.subrow /\ ShapeChangeNeedsScheduling
    IN /\ data' = out.data
       /\ needsShapeChange' = IF schedule THEN Bool(TRUE) ELSE needsShapeChange
       /\ timers' = IF schedule THEN timers + 1 ELSE timers
       /\ hostCalls' = IF schedule THEN <<setTimeout("scheduleShapeChange")>> ELSE <<>>
       /\ call' = IF out.threw THEN Threw("getValue", <<x, y>>)
                  ELSE Returned("getValue", <<x, y>>, out.ret)
       /\ UNCHANGED schema

\* this.data[y][getColumnName.call(this, x)] = value
setValue(x, y, value) ==
    LET row == Index(data, y.n)
        col == getColumnName(x)
    IN /\ IF col.threw \/ row.t # "object"
          THEN /\ call' = Threw("setValue", <<x, y, value>>)
               /\ UNCHANGED data
          ELSE /\ data' = [data EXCEPT ![y.n + 1] = Put(row, ToPropertyKey(col.name), value)]
               /\ call' = Returned("setValue", <<x, y, value>>, Undefined)
       /\ hostCalls' = <<>>
       /\ UNCHANGED <<schema, needsShapeChange, timers>>

\* The task setTimeout queued, run by the host after the current turn.
scheduleShapeChange ==
    /\ timers > 0
    /\ timers' = timers - 1
    /\ needsShapeChange' = Bool(FALSE)
    /\ hostCalls' = <<dispatchEvent("data-shape-changed")>>
    /\ call' = Returned("scheduleShapeChange", <<>>, Undefined)
    /\ UNCHANGED <<data, schema>>

(***************************************************************************)
(* Rows and row metadata                                                   *)
(***************************************************************************)
\* this.data[y] = dataRow || undefined
setRow(y, dataRow) ==
    /\ data' = AssignIndex(data, y.n, IF Truthy(dataRow) THEN dataRow ELSE Undefined)
    /\ hostCalls' = <<>>
    /\ call' = Returned("setRow", <<y, dataRow>>, Undefined)
    /\ UNCHANGED <<schema, needsShapeChange, timers>>

\* What getRowMetadata(y, prototype) does in the state at hand.
getRowMetadataOutcome(y, prototype) ==
    LET dataRow == Index(data, y.n)
        created == ObjectCreate(prototype, <<>>)
    IN IF ~Truthy(dataRow)
       THEN [threw |-> FALSE, ret |-> dataRow, data |-> data]
       ELSE IF Truthy(Get(dataRow, "__META"))
       THEN [threw |-> FALSE, ret |-> Get(dataRow, "__META"), data |-> data]
       ELSE IF prototype = Undefined
       THEN [threw |-> FALSE, ret |-> Bool(FALSE), data |-> data]
       ELSE IF prototype.t \notin {"object", "null"}
       THEN [threw |-> TRUE, ret |-> Undefined, data |-> data]
       ELSE [threw |-> FALSE, ret |-> created,
             data |-> [data EXCEPT ![y.n + 1] = Put(dataRow, "__META", created)]]

getRowMetadata(y, prototype) ==
    LET out == getRowMetadataOutcome(y, prototype)
    IN /\ data' = out.data
       /\ call' = IF out.threw THEN Threw("getRowMetadata", <<y, prototype>>)
                  ELSE Returned("getRowMetadata", <<y, prototype>>, out.ret)
       /\ hostCalls' = <<>>
       /\ UNCHANGED <<schema, needsShapeChange, timers>>

\* setRowMetadata leaving the old metadata in place when given none.
WithMetadata_NoDelete(dataRow, metadata) ==
    IF Truthy(metadata) THEN Put(dataRow, "__META", metadata)
    ELSE dataRow

\* The row after setRowMetadata: __META assigned, or deleted when the
\* metadata is falsy.
WithMetadata(dataRow, metadata) ==
    IF Truthy(metadata) THEN Put(dataRow, "__META", metadata)
    ELSE Delete(dataRow, "__META")

setRowMetadata(y, metadata) ==
    LET dataRow == Index(data, y.n)
    IN /\ data' = IF Truthy(dataRow)
                  THEN [data EXCEPT ![y.n + 1] = WithMetadata(dataRow, metadata)]
                  ELSE data
       /\ call' = Returned("setRowMetadata", <<y, metadata>>, Bool(Truthy(dataRow)))
       /\ hostCalls' = <<>>
       /\ UNCHANGED <<schema, needsShapeChange, timers>>

\* addRow overwriting the row at y instead of inserting before it.
RowsAfterAdd_Overwrite(d, dataRow, y) ==
    IF y = Undefined \/ y.n >= Len(d)
    THEN Append(d, dataRow)
    ELSE Splice(d, y.n, 1, <<dataRow>>).result

\* The rows after addRow(dataRow, y): pushed, or spliced in at y.
RowsAfterAdd(d, dataRow, y) ==
    IF y = Undefined \/ y.n >= Len(d)
    THEN Append(d, dataRow)
    ELSE Splice(d, y.n, 0, <<dataRow>>).result

addRow(dataRow, y) ==
    /\ data' = RowsAfterAdd(data, dataRow, y)
    /\ hostCalls' = <<dispatchEvent("fin-hypergrid-data-shape-changed")>>
    /\ call' = Returned("addRow", <<dataRow, y>>, Undefined)
    /\ UNCHANGED <<schema, needsShapeChange, timers>>

\* The default written as rowCount || 1.
DeleteCount_OrOne(rowCount) == IF Truthy(rowCount) THEN rowCount.n ELSE 1

\* rowCount === undefined ? 1 : rowCount
DeleteCount(rowCount) == IF rowCount = Undefined THEN 1 ELSE rowCount.n

delRow(y, rowCount) ==
    LET spliced == Splice(data, y.n, DeleteCount(rowCount), <<>>)
    IN /\ data' = spliced.result
       /\ hostCalls' = IF Len(spliced.removed) # 0
                       THEN <<dispatchEvent("fin-hypergrid-data-shape-changed")>>
                       ELSE <<>>
       /\ call' = Returned("delRow", <<y, rowCount>>, Arr(spliced.removed))
       /\ UNCHANGED <<schema, needsShapeChange, timers>>

(***************************************************************************)
(* Inputs of the cell specification                                        *)
(***************************************************************************)
SmallRows == 3
BigRows == 121

\* Row i of a data set: every cell differs by row and by column.
DataRow(i) ==
    JSObject(<<Prop("a", Num(i)), Prop("b", Num(1000 + i)), Prop("c", Num(2000 + i))>>)

Rows(n) == [i \in 1..n |-> DataRow(i - 1)]

ColumnSchema ==
    <<JSObject(<<Prop("name", Str("a"))>>),
      JSObject(<<Prop("name", Str("b"))>>),
      JSObject(<<Prop("name", Str("c"))>>)>>

\* Data sets: short, ending right after the second sub-row position, and
\* long enough for every shifted read.
CellRowCounts == {SmallRows, SubrowY + 1, BigRows}
CellXs == {Num(0), Num(SubrowX), Str("c")}
CellYs == {0, SubrowYX, SubrowYX + 1, SubrowY, SubrowY + 3}
WriteXs == {Num(SubrowX), Str("c")}
WriteYs == {0, SubrowYX + 1, SubrowY}
CellValues == {Num(7)}

InitCells == initialize

NextCells ==
    \/ \E n \in CellRowCounts :
          setData(Arr(Rows(n)), Arr(ColumnSchema)) /\ UNCHANGED steps
    \/ \E x \in CellXs, y \in CellYs :
          getValue(x, Num(y)) /\ UNCHANGED steps
    \/ \E x \in WriteXs, y \in WriteYs, v \in CellValues :
          setValue(x, Num(y), v) /\ UNCHANGED steps
    \/ scheduleShapeChange /\ UNCHANGED steps

SpecCells == InitCells /\ [][NextCells]_vars

(***************************************************************************)
(* Cell claims                                                             *)
(***************************************************************************)
\* x is a schema index in range or a column name.
ResolvableColumn(x) == x.t = "string" \/ (x.t = "number" /\ x.n \in 0..(getColumnCount - 1))

\* y is a row position holding a defined row.
DefinedRowAt(y) == y \in 0..(getRowCount - 1) /\ Truthy(getRow(y))

\* C1: setValue(x, y, v) on a defined row y < getRowCount() with a valid
\* column x, followed at once by getValue(x, y), returns v - for every y,
\* positions at and beyond 114 included.
C1_RoundTrip ==
    [][(/\ call.op = "setValue"
        /\ ~call.threw
        /\ call'.op = "getValue"
        /\ call'.args = <<call.args[1], call.args[2]>>
        /\ ResolvableColumn(call.args[1])
        /\ DefinedRowAt(call.args[2].n))
       => (~call'.threw /\ call'.ret = call.args[3])]_vars

\* The name of schema column i.
ColumnNameOf(i) == Get(Index(schema, i), "name")

\* What the caller of getValue(x, y) sees.
getValueResult(x, y) ==
    LET out == getValueOutcome(x, y) IN [threw |-> out.threw, ret |-> out.ret]

\* C2: for every defined row y and every schema index i, getValue(i, y) and
\* getValue(name of column i, y) give the same result.
C2_DualAddressing ==
    \A y \in 0..(getRowCount - 1) : \A i \in 0..(getColumnCount - 1) :
        (Truthy(getRow(y)) /\ Index(schema, i).t = "object")
        => getValueResult(Num(i), Num(y)) = getValueResult(ColumnNameOf(i), Num(y))

\* C3: getValue(x, y) with y >= 0 and a resolvable column never faults, and
\* returns null whenever y >= getRowCount().
C3_ReadsNeverFail ==
    (call.op = "getValue" /\ call.args[2].n >= 0 /\ ResolvableColumn(call.args[1]))
    => /\ ~call.threw
       /\ call.args[2].n >= getRowCount => call.ret = Null

\* The pending flag is true exactly when one deferred task is queued, and no
\* more than one ever is.
PendingIffOneTask ==
    /\ timers \in {0, 1}
    /\ needsShapeChange = Bool(TRUE) <=> timers = 1

MaxRows == 5
MaxSteps == 5

\* A row whose keys were inserted in another order than DataRow's.
OtherRow == JSObject(<<Prop("b", Num(31)), Prop("a", Num(32))>>)
NewRow == JSObject(<<Prop("a", Num(41)), Prop("b", Num(42)), Prop("c", Num(43))>>)

\* Rows with a blank first position, and rows that are all blank.
HoleyRows == <<Undefined, OtherRow, DataRow(2)>>
BlankRows == <<Undefined, Undefined>>

\* A position beyond any row the bounded runs can hold.
FarY == MaxRows + MaxSteps + 1

Metadata == JSObject(<<Prop("color", Str("red"))>>)
Prototype == JSObject(<<Prop("editable", Bool(FALSE))>>)

RowSets == {Undefined, Arr(Rows(MaxRows)), Arr(HoleyRows), Arr(BlankRows)}
Schemas == {Undefined, Arr(<<>>), Arr(ColumnSchema)}

Step == steps < MaxSteps /\ steps' = steps + 1

InitRows == initialize

NextShape ==
    \/ \E d \in RowSets, s \in Schemas : setData(d, s) /\ Step
    \/ \E s \in Schemas \ {Undefined} : setSchema(s) /\ Step
    \/ \E y \in {0}, r \in {Undefined, NewRow} : setRow(Num(y), r) /\ Step
    \/ \E y \in {Undefined, Num(0), Num(2), Num(FarY)} : addRow(NewRow, y) /\ Step
    \/ \E y \in {0, 1, 3, FarY}, n \in {Undefined, Num(0), Num(2)} :
          delRow(Num(y), n) /\ Step

SpecShape == InitRows /\ [][NextShape]_vars

NextMeta ==
    \/ \E d \in RowSets \ {Undefined}, s \in Schemas : setData(d, s) /\ Step
    \/ \E s \in Schemas \ {Undefined} : setSchema(s) /\ Step
    \/ \E y \in {0}, r \in {Undefined, NewRow} : setRow(Num(y), r) /\ Step
    \/ \E y \in {0, 1, FarY}, proto \in {Undefined, Null, Prototype} :
          getRowMetadata(Num(y), proto) /\ Step
    \/ \E y \in {0, 1, FarY}, m \in {Undefined, Metadata} :
          setRowMetadata(Num(y), m) /\ Step

SpecMeta == InitRows /\ [][NextMeta]_vars

(***************************************************************************)
(* Row, schema and metadata claims                                         *)
(***************************************************************************)
SchemaChanged == dispatchEvent("fin-hypergrid-schema-changed")
ShapeChanged == dispatchEvent("fin-hypergrid-data-shape-changed")

\* One {name: key} entry per data field of a row, in insertion order.
NamedEntries(row) ==
    IF Truthy(row)
    THEN LET fields == Delete(row, "__META").props
         IN [i \in 1..Len(fields) |-> JSObject(<<Prop("name", Str(fields[i].k))>>)]
    ELSE <<>>

\* C4: setSchema with an empty schema leaves one {name: key} entry per key
\* of the first defined row, in insertion order, or an empty schema when no
\* row is defined, and emits a schema-changed notification.
C4_SchemaInference ==
    (call.op = "setSchema" /\ call.args[1].elems = <<>>)
    => /\ schema = NamedEntries(FirstDefinedRow(data))
       /\ hostCalls = <<SchemaChanged>>

\* The column name a schema entry stands for.
SchemaEntryName(entry) == IF entry.t = "string" THEN entry ELSE Get(entry, "name")

\* C10: no schema entry is ever made for the reserved metadata key.
C10_ReservedKeyNotInSchema ==
    \A i \in 1..Len(schema) : SchemaEntryName(schema[i]) # Str("__META")

HasDefinedRow(d) == \E i \in 1..Len(d) : Truthy(d[i])

\* The rows and schema passed in a setData call.
PassedRows(c) == IF c.args[1] = Undefined THEN <<>> ELSE c.args[1].elems

\* C5 as claimed: after setData(R, S), for S of any length, the schema is S
\* and the row count |R|; setData(R) without a schema while one is held
\* leaves the schema alone and emits nothing.
C5_SetData ==
    [][call'.op = "setData" =>
         /\ call'.args[2] # Undefined =>
              (schema' = call'.args[2].elems /\ Len(data') = Len(PassedRows(call')))
         /\ (call'.args[2] = Undefined /\ Len(schema) > 0) =>
              (schema' = schema /\ hostCalls' = <<>>)]_vars

\* C5 amended: the same for S non-empty, or empty while R holds no defined
\* row; the row count is |R| in every case.
C5_SetDataNonEmptySchema ==
    [][call'.op = "setData" =>
         /\ Len(data') = Len(PassedRows(call'))
         /\ (/\ call'.args[2] # Undefined
             /\ (Len(call'.args[2].elems) > 0 \/ ~HasDefinedRow(PassedRows(call')))) =>
              schema' = call'.args[2].elems
         /\ (call'.args[2] = Undefined /\ Len(schema) > 0) =>
              (schema' = schema /\ hostCalls' = <<>>)]_vars

\* setData with rows and a non-empty schema has run.
C5_Witness ==
    /\ call.op = "setData"
    /\ call.args[2] # Undefined /\ Len(call.args[2].elems) > 0
    /\ Len(data) = MaxRows
    /\ schema = call.args[2].elems

\* C6: delRow(y, count = 1) removes the rows at y .. y+count-1 that exist,
\* returns them in order, moves the later rows up by the number removed and
\* emits a shape change exactly when a row was removed.
C6_DelRow ==
    [][call'.op = "delRow" =>
         LET y == call'.args[1].n
             count == IF call'.args[2] = Undefined THEN 1 ELSE call'.args[2].n
             k == Cardinality({p \in 0..(Len(data) - 1) : y <= p /\ p < y + count})
         IN /\ call'.ret = Arr([i \in 1..k |-> data[y + i]])
            /\ Len(data') = Len(data) - k
            /\ \A p \in 0..(Len(data') - 1) :
                 Index(data', p) = Index(data, IF p < y THEN p ELSE p + k)
            /\ hostCalls' = IF k > 0 THEN <<ShapeChanged>> ELSE <<>>]_vars

\* delRow(1, 2) on the full data set returned two rows.
C6_Witness ==
    /\ call.op = "delRow"
    /\ call.args = <<Num(1), Num(2)>>
    /\ call.ret = Arr(<<DataRow(1), DataRow(2)>>)
    /\ getRow(1) = DataRow(3)
    /\ hostCalls = <<ShapeChanged>>

\* C7: addRow(row, y) adds exactly one row and emits one shape change; the
\* row goes last when y is omitted or y >= getRowCount(), else to position
\* y with the rows from y on moved one later.
C7_AddRow ==
    [][call'.op = "addRow" =>
         LET row == call'.args[1]
             y == call'.args[2]
             n == Len(data)
             at == IF y = Undefined \/ y.n >= n THEN n ELSE y.n
         IN /\ Len(data') = n + 1
            /\ hostCalls' = <<ShapeChanged>>
            /\ Index(data', at) = row
            /\ \A p \in 0..(n - 1) :
                 Index(data', IF p < at THEN p ELSE p + 1) = Index(data, p)]_vars

\* addRow(row, 0) put the row in front of a non-empty data set.
C7_Witness ==
    /\ call.op = "addRow"
    /\ call.args[2] = Num(0)
    /\ getRow(0) = NewRow
    /\ getRowCount > 1 /\ Truthy(getRow(1))

\* What getRowMetadata(y) with no fallback returns right after a call of
\* setRowMetadata(y, m), and what that call returned.
MetadataRoundTrip(absent) ==
    call.op = "setRowMetadata" =>
        LET y == call.args[1]
            m == call.args[2]
            defined == Truthy(getRow(y.n))
            got == getRowMetadataOutcome(y, Undefined)
        IN /\ ~call.threw
           /\ call.ret = Bool(defined)
           /\ ~got.threw
           /\ (defined /\ m.t = "object") => got.ret = m
           /\ (defined /\ m = Undefined) => got.ret = absent

\* C8 as claimed: getRowMetadata(y) after setRowMetadata(y, undefined) is
\* undefined.
C8_MetadataRoundTrip == MetadataRoundTrip(Undefined)

\* C8 amended: it is false.
C8_MetadataRoundTripFalse == MetadataRoundTrip(Bool(FALSE))

\* setRowMetadata(y, undefined) on a defined row, after which getRowMetadata(y)
\* returns false.
C8_Witness ==
    /\ call.op = "setRowMetadata"
    /\ call.args[2] = Undefined
    /\ call.ret = Bool(TRUE)
    /\ getRowMetadataOutcome(call.args[1], Undefined).ret = Bool(FALSE)
====
